---- MODULE Spec2Model ----
(***************************************************************************)
(* Model of src/app.py: the FastAPI voice-agent backend.                   *)
(*                                                                         *)
(* Every endpoint that calls a provider (/generate, /voice-reply,          *)
(* /murf-tts, /murf-tts-json, /llm/query) keeps its data in locals and     *)
(* reads the API keys only; one request of those is followed from its      *)
(* arrival to its response, each blocking provider call being one step     *)
(* whose answer is chosen nondeterministically (Spec).                     *)
(*                                                                         *)
(* /upload writes uploads/<filename>, which all requests and all worker    *)
(* processes share; its handler is followed as its file-system calls,      *)
(* for several requests at once (SpecUpload).                              *)
(***************************************************************************)
EXTENDS Integers, Sequences, FiniteSets, TLC

VARIABLES
    GEMINI_API_KEY, \* app.py:39, read once at startup
    pc,             \* position of the request in its handler
    endpoint,       \* route of the request
    voice,          \* the request's style label (a sequence of characters)
    voice_id,       \* local voice_id of the handler
    audio_url,      \* local audio_url of the handler
    calls,          \* provider calls made for the request, in order
    out,            \* responses produced for the request, in order
    fs,             \* uploads/ directory: filename -> size in bytes, -1 absent
    up              \* the /upload requests

vars == <<GEMINI_API_KEY, pc, endpoint, voice, voice_id, audio_url, calls, out, fs, up>>

reqvars == <<GEMINI_API_KEY, pc, endpoint, voice, voice_id, audio_url, calls, out>>

upvars == <<fs, up>>

None == "<None>"

-----------------------------------------------------------------------------
(* Strings the code transforms are sequences of characters.                 *)

UpperToLower ==
    "A" :> "a" @@ "B" :> "b" @@ "C" :> "c" @@ "D" :> "d" @@ "E" :> "e" @@
    "F" :> "f" @@ "G" :> "g" @@ "H" :> "h" @@ "I" :> "i" @@ "J" :> "j" @@
    "K" :> "k" @@ "L" :> "l" @@ "M" :> "m" @@ "N" :> "n" @@ "O" :> "o" @@
    "P" :> "p" @@ "Q" :> "q" @@ "R" :> "r" @@ "S" :> "s" @@ "T" :> "t" @@
    "U" :> "u" @@ "V" :> "v" @@ "W" :> "w" @@ "X" :> "x" @@ "Y" :> "y" @@
    "Z" :> "z"

\* str.lower()
lower(s) ==
    [i \in 1..Len(s) |-> IF s[i] \in DOMAIN UpperToLower THEN UpperToLower[s[i]] ELSE s[i]]

\* dict.get(key, default)
get(d, key, default) == IF key \in DOMAIN d THEN d[key] ELSE default

k_default == <<"d", "e", "f", "a", "u", "l", "t">>
k_narrator == <<"n", "a", "r", "r", "a", "t", "o", "r">>
k_support == <<"s", "u", "p", "p", "o", "r", "t">>
k_sergeant == <<"s", "e", "r", "g", "e", "a", "n", "t">>
k_game == <<"g", "a", "m", "e">>

generate_voice_voice_map ==
    k_default :> "en-US-natalie" @@ k_narrator :> "en-US-terrell" @@
    k_support :> "en-US-miles" @@ k_sergeant :> "en-US-ken" @@
    k_game :> "en-US-paul"

voice_reply_voice_map ==
    k_default :> "en-US-natalie" @@ k_narrator :> "en-US-terrell" @@
    k_support :> "en-US-miles" @@ k_sergeant :> "en-US-ken" @@
    k_game :> "en-US-paul"

murf_tts_json_voice_map ==
    k_default :> "en-US-natalie" @@ k_narrator :> "en-US-terrell" @@
    k_support :> "en-US-miles" @@ k_sergeant :> "en-US-ken" @@
    k_game :> "en-US-paul"

generate_voice_voice_id(v) == get(generate_voice_voice_map, lower(v), "en-US-natalie")

voice_reply_voice_id(v) == get(voice_reply_voice_map, lower(v), "en-US-natalie")

\* variant: the label is looked up as sent, without .lower()
murf_tts_json_voice_id_no_lower(v) == get(murf_tts_json_voice_map, v, "en-US-natalie")

murf_tts_json_voice_id(v) == get(murf_tts_json_voice_map, lower(v), "en-US-natalie")

\* Style labels a client sends: the keys, case variants of keys, others.
Labels ==
    { k_default, k_narrator, k_support, k_sergeant, k_game,
      <<"N", "a", "r", "r", "a", "t", "o", "r">>,
      <<"G", "A", "M", "E">>,
      <<"r", "o", "b", "o", "t">>,
      <<>> }

-----------------------------------------------------------------------------
(* Answers of the providers.  A call either raises (raised, msg = str(e))   *)
(* or returns (status, text); a transcript has text only.                   *)

Raise(m) == [raised |-> TRUE, msg |-> m, status |-> 0, text |-> None]

Reply(s, t) == [raised |-> FALSE, msg |-> None, status |-> s, text |-> t]

MurfUrl == "https://murf.ai/audio/1.mp3"

B_url == "{\"audioFile\": \"https://murf.ai/audio/1.mp3\"}"
B_empty == "{\"audioFile\": \"\"}"
B_null == "{\"audioFile\": null}"
B_absent == "{\"audioLengthInSeconds\": 1}"
B_notjson == "<html>Bad Gateway</html>"
B_error == "{\"errorMessage\": \"Invalid api-key\"}"

\* transcriber.transcribe(audio_bytes): raises, or returns a transcript whose
\* text is a string, or None for a transcript in error status
TranscribeReplies ==
    { Raise("Upload failed: 401 Unauthorized"), Reply(0, "hello there"), Reply(0, None) }

\* requests.post("https://api.murf.ai/v1/speech/generate", ...)
MurfReplies ==
    { Raise("ConnectionError: api.murf.ai") }
    \cup { Reply(200, b) : b \in {B_url, B_empty, B_null, B_absent, B_notjson} }
    \cup { Reply(s, B_error) : s \in {201, 400, 500} }

\* requests.get(audio_url)
FetchReplies ==
    { Raise("ConnectionError: murf.ai"), Reply(200, "ID3-mp3-bytes"), Reply(404, "Not Found") }

\* response.json(): Response.json raises on a body that is not JSON
json_ok(t) == t # B_notjson

\* json().get("audioFile"): None when the key is absent or null
json_get_audioFile(t) ==
    CASE t = B_url -> MurfUrl
      [] t = B_empty -> ""
      [] OTHER -> None

\* "audioFile" in result
json_has_audioFile(t) == t \in {B_url, B_empty, B_null}

\* truth value of a str-or-None
truthy(x) == x # None /\ x # ""

-----------------------------------------------------------------------------
(* Responses.  body is a sequence of string pieces (their concatenation).   *)

\* JSONResponse(status_code=s, content={"error": b})
JSONError(s, b) == [kind |-> "error", status |-> s, body |-> b]

\* JSONResponse / dict with the success payload
JSONOk(b) == [kind |-> "json", status |-> 200, body |-> b]

\* StreamingResponse(BytesIO(content), media_type="audio/mpeg")
Streaming(b) == [kind |-> "stream", status |-> 200, body |-> b]

\* raise HTTPException(status_code=s, detail=b): answered as {"detail": b}
HTTPExc(s, b) == [kind |-> "http_exception", status |-> s, body |-> b]

\* an exception that leaves the handler: the server's bare 500
Unhandled(b) == [kind |-> "unhandled", status |-> 500, body |-> b]

Call(api, arg, reply) == [api |-> api, arg |-> arg, reply |-> reply]

\* what a handler step decides: where the request goes, what it answers
Goto(p) == [pc |-> p, out |-> <<>>]

Return(r) == [pc |-> "done", out |-> <<r>>]

-----------------------------------------------------------------------------
(* POST /voice-reply (and /murf-tts, which calls it)                        *)

\* variant: a transcription failure is swallowed and the handler goes on
voice_reply_transcribed_swallow(t) == Goto("voice_reply_synthesize")

\* lines 157-162 and 195-196: after transcriber.transcribe(audio_bytes)
voice_reply_transcribed(t) ==
    IF t.raised
    THEN Return(JSONError(500, <<t.msg>>))
    ELSE Goto("voice_reply_synthesize")

\* variant: the check of audio_url (lines 186-187) is left out
voice_reply_synthesized_no_url_check(r) ==
    IF r.raised THEN Return(JSONError(500, <<r.msg>>))
    ELSE IF r.status # 200 THEN Return(JSONError(r.status, <<r.text>>))
    ELSE IF ~json_ok(r.text)
         THEN Return(JSONError(500, <<"Expecting value: line 1 column 1 (char 0)">>))
    ELSE Goto("voice_reply_fetch")

\* lines 180-187 and 195-196: after requests.post to the synthesis provider
voice_reply_synthesized(r) ==
    IF r.raised THEN Return(JSONError(500, <<r.msg>>))
    ELSE IF r.status # 200 THEN Return(JSONError(r.status, <<r.text>>))
    ELSE IF ~json_ok(r.text)
         THEN Return(JSONError(500, <<"Expecting value: line 1 column 1 (char 0)">>))
    ELSE IF ~truthy(json_get_audioFile(r.text))
         THEN Return(JSONError(500, <<"No audio file URL returned by Murf AI">>))
    ELSE Goto("voice_reply_fetch")

\* variant: a failed download is tried again
voice_reply_fetched_retry(f) ==
    IF f.raised \/ f.status # 200
    THEN Goto("voice_reply_fetch")
    ELSE Return(Streaming(<<f.text>>))

\* lines 189-196: after requests.get(audio_url)
voice_reply_fetched(f) ==
    IF f.raised THEN Return(JSONError(500, <<f.msg>>))
    ELSE IF f.status # 200
         THEN Return(JSONError(500, <<"Failed to download audio from Murf AI">>))
    ELSE Return(Streaming(<<f.text>>))

murf_tts_alias ==
    /\ pc = "murf_tts_alias"
    /\ pc' = "voice_reply_transcribe"
    /\ UNCHANGED <<GEMINI_API_KEY, endpoint, voice, voice_id, audio_url, calls, out>>
    /\ UNCHANGED upvars

voice_reply_transcribe ==
    /\ pc = "voice_reply_transcribe"
    /\ \E t \in TranscribeReplies :
         LET d == voice_reply_transcribed(t) IN
           /\ calls' = Append(calls, Call("transcribe", "audio_bytes", t))
           /\ pc' = d.pc
           /\ out' = out \o d.out
           /\ voice_id' = IF d.pc = "done" THEN voice_id ELSE voice_reply_voice_id(voice)
    /\ UNCHANGED <<GEMINI_API_KEY, endpoint, voice, audio_url>>
    /\ UNCHANGED upvars

voice_reply_synthesize ==
    /\ pc = "voice_reply_synthesize"
    /\ \E r \in MurfReplies :
         LET d == voice_reply_synthesized(r) IN
           /\ calls' = Append(calls, Call("synthesize", voice_id, r))
           /\ pc' = d.pc
           /\ out' = out \o d.out
           /\ audio_url' = IF d.pc = "done" THEN audio_url ELSE json_get_audioFile(r.text)
    /\ UNCHANGED <<GEMINI_API_KEY, endpoint, voice, voice_id>>
    /\ UNCHANGED upvars

voice_reply_fetch ==
    /\ pc = "voice_reply_fetch"
    /\ \E f \in FetchReplies :
         LET d == voice_reply_fetched(f) IN
           /\ calls' = Append(calls, Call("fetch", audio_url, f))
           /\ pc' = d.pc
           /\ out' = out \o d.out
    /\ UNCHANGED <<GEMINI_API_KEY, endpoint, voice, voice_id, audio_url>>
    /\ UNCHANGED upvars

-----------------------------------------------------------------------------
(* POST /murf-tts-json                                                      *)

\* variant: audio_url is tested with "is None" instead of "not"
murf_tts_json_synthesized_is_none(r) ==
    IF r.raised THEN Return(JSONError(500, <<r.msg>>))
    ELSE IF r.status # 200 THEN Return(JSONError(r.status, <<r.text>>))
    ELSE IF ~json_ok(r.text)
         THEN Return(JSONError(500, <<"Expecting value: line 1 column 1 (char 0)">>))
    ELSE IF json_get_audioFile(r.text) = None
         THEN Return(JSONError(500, <<"No audio file URL returned by Murf AI">>))
    ELSE Goto("murf_tts_json_fetch")

\* lines 229-235 and 243-244
murf_tts_json_synthesized(r) ==
    IF r.raised THEN Return(JSONError(500, <<r.msg>>))
    ELSE IF r.status # 200 THEN Return(JSONError(r.status, <<r.text>>))
    ELSE IF ~json_ok(r.text)
         THEN Return(JSONError(500, <<"Expecting value: line 1 column 1 (char 0)">>))
    ELSE IF ~truthy(json_get_audioFile(r.text))
         THEN Return(JSONError(500, <<"No audio file URL returned by Murf AI">>))
    ELSE Goto("murf_tts_json_fetch")

\* lines 237-244
murf_tts_json_fetched(f) ==
    IF f.raised THEN Return(JSONError(500, <<f.msg>>))
    ELSE IF f.status # 200
         THEN Return(JSONError(500, <<"Failed to download audio from Murf AI">>))
    ELSE Return(Streaming(<<f.text>>))

murf_tts_json_synthesize ==
    /\ pc = "murf_tts_json_synthesize"
    /\ \E r \in MurfReplies :
         LET vid == murf_tts_json_voice_id(voice)
             d == murf_tts_json_synthesized(r) IN
           /\ voice_id' = vid
           /\ calls' = Append(calls, Call("synthesize", vid, r))
           /\ pc' = d.pc
           /\ out' = out \o d.out
           /\ audio_url' = IF d.pc = "done" THEN audio_url ELSE json_get_audioFile(r.text)
    /\ UNCHANGED <<GEMINI_API_KEY, endpoint, voice>>
    /\ UNCHANGED upvars

murf_tts_json_fetch ==
    /\ pc = "murf_tts_json_fetch"
    /\ \E f \in FetchReplies :
         LET d == murf_tts_json_fetched(f) IN
           /\ calls' = Append(calls, Call("fetch", audio_url, f))
           /\ pc' = d.pc
           /\ out' = out \o d.out
    /\ UNCHANGED <<GEMINI_API_KEY, endpoint, voice, voice_id, audio_url>>
    /\ UNCHANGED upvars

-----------------------------------------------------------------------------
(* POST /generate: no try/except, so what raises leaves the handler         *)

\* variant: a provider error is answered with a fixed 500
generate_voice_response_fixed_500(r) ==
    IF r.raised THEN Return(Unhandled(<<r.msg>>))
    ELSE IF r.status = 200
         THEN IF ~json_ok(r.text)
              THEN Return(Unhandled(<<"Expecting value: line 1 column 1 (char 0)">>))
              ELSE IF ~json_has_audioFile(r.text)
                   THEN Return(Unhandled(<<"'audioFile'">>))
                   ELSE Return(JSONOk(<<json_get_audioFile(r.text)>>))
         ELSE Return(JSONError(500, <<r.text>>))

\* lines 94-99
generate_voice_response(r) ==
    IF r.raised THEN Return(Unhandled(<<r.msg>>))
    ELSE IF r.status = 200
         THEN IF ~json_ok(r.text)
              THEN Return(Unhandled(<<"Expecting value: line 1 column 1 (char 0)">>))
              ELSE IF ~json_has_audioFile(r.text)
                   THEN Return(Unhandled(<<"'audioFile'">>))
                   ELSE Return(JSONOk(<<json_get_audioFile(r.text)>>))
         ELSE Return(JSONError(r.status, <<r.text>>))

generate_voice ==
    /\ pc = "generate_voice"
    /\ \E r \in MurfReplies :
         LET vid == generate_voice_voice_id(voice)
             d == generate_voice_response(r) IN
           /\ voice_id' = vid
           /\ calls' = Append(calls, Call("synthesize", vid, r))
           /\ pc' = d.pc
           /\ out' = out \o d.out
    /\ UNCHANGED <<GEMINI_API_KEY, endpoint, voice, audio_url>>
    /\ UNCHANGED upvars

-----------------------------------------------------------------------------
(* POST /llm/query                                                          *)

G_ok == "{\"candidates\": [{\"content\": {\"parts\": [{\"text\": \"Hi!\"}]}}]}"
G_empty == "{\"candidates\": []}"
G_nokey == "{\"promptFeedback\": {}}"
G_malformed == "{\"candidates\": [{\"finishReason\": \"SAFETY\"}]}"
G_notjson == "<html>Service Unavailable</html>"
G_error == "{\"error\": {\"message\": \"API key not valid\"}}"

\* requests.post(gemini_url, ...)
GeminiReplies ==
    { Raise("ConnectionError: generativelanguage.googleapis.com") }
    \cup { Reply(200, b) : b \in {G_ok, G_empty, G_nokey, G_malformed, G_notjson} }
    \cup { Reply(s, G_error) : s \in {400, 503} }

\* str(e) of an HTTPException(500, "No response from Gemini API"): the framework's
\* __str__ gives "<status>: <detail>", an older one without __str__ gives ""
HTTPExceptionStr ==
    { <<"500: ", "No response from Gemini API">>, <<>> }

\* Response.raise_for_status(): raises HTTPError for a 4xx or 5xx status
raise_for_status(status) == status >= 400 /\ status < 600

\* "candidates" in data and len(data["candidates"]) > 0
has_candidates(t) == t \in {G_ok, G_malformed}

\* variant: the key is tested with "is None", so an empty key passes
llm_query_key_missing_is_none(key) == key = None

\* line 255: not GEMINI_API_KEY
llm_query_key_missing(key) == ~truthy(key)

\* lines 264-277; e_str is what str() gives for the HTTPException of line 272
llm_query_response(g, e_str) ==
    IF g.raised THEN Return(HTTPExc(500, <<"Internal error: ", g.msg>>))
    ELSE IF raise_for_status(g.status)
         THEN Return(HTTPExc(g.status, <<"Gemini API error: ", g.text>>))
    ELSE IF g.text = G_notjson
         THEN Return(HTTPExc(500, <<"Internal error: ", "Expecting value: line 1 column 1 (char 0)">>))
    ELSE IF has_candidates(g.text)
         THEN IF g.text = G_ok
              THEN Return(JSONOk(<<"Hi!">>))
              ELSE Return(HTTPExc(500, <<"Internal error: ", "'content'">>))
    \* line 272 raises inside the try: line 276 catches it and wraps it
    ELSE Return(HTTPExc(500, <<"Internal error: ">> \o e_str))

llm_query ==
    /\ pc = "llm_query"
    /\ IF llm_query_key_missing(GEMINI_API_KEY)
       THEN /\ out' = out \o <<HTTPExc(500, <<"Gemini API key not configured">>)>>
            /\ pc' = "done"
            /\ calls' = calls
       ELSE \E g \in GeminiReplies, e_str \in HTTPExceptionStr :
              LET d == llm_query_response(g, e_str) IN
                /\ calls' = Append(calls, Call("gemini", "text", g))
                /\ pc' = d.pc
                /\ out' = out \o d.out
    /\ UNCHANGED <<GEMINI_API_KEY, endpoint, voice, voice_id, audio_url>>
    /\ UNCHANGED upvars

-----------------------------------------------------------------------------
(* Arrival of a request: the route chooses the handler                      *)

Route ==
    "/voice-reply" :> "voice_reply_transcribe" @@
    "/murf-tts" :> "murf_tts_alias" @@
    "/murf-tts-json" :> "murf_tts_json_synthesize" @@
    "/generate" :> "generate_voice" @@
    "/llm/query" :> "llm_query"

request ==
    /\ pc \in {"idle", "done"}
    /\ \E ep \in DOMAIN Route :
         /\ endpoint' = ep
         /\ pc' = Route[ep]
         /\ voice' \in (IF ep = "/llm/query" THEN {<<>>} ELSE Labels)
    /\ voice_id' = None
    /\ audio_url' = None
    /\ calls' = <<>>
    /\ out' = <<>>
    /\ UNCHANGED GEMINI_API_KEY
    /\ UNCHANGED upvars

-----------------------------------------------------------------------------
(* POST /upload                                                             *)

NumUploads == 2
NumWorkers == 2
MaxSize == 2

Uploads == 1..NumUploads
Workers == 1..NumWorkers
Filenames == {"a.wav", "b.wav"}

UploadIdle == [pc |-> "idle", filename |-> "a.wav", size |-> 0, proc |-> 1, off |-> 0, size_bytes |-> -1]
InHandler(u) == up[u].pc \in {"open", "copy", "stat"}

\* upload_audio is an async def without an await (lines 110-120): a worker
\* process runs it to its return before it starts another handler; different
\* worker processes run their handlers side by side over the same directory
upload_request(u) ==
    /\ up[u].pc \in {"idle", "done"}
    /\ \E name \in Filenames, n \in 0..MaxSize, w \in Workers :
         /\ \A v \in Uploads \ {u} : InHandler(v) => up[v].proc # w
         /\ up' = [up EXCEPT ![u] = [pc |-> "open", filename |-> name, size |-> n,
                                     proc |-> w, off |-> 0, size_bytes |-> -1]]
    /\ UNCHANGED fs
    /\ UNCHANGED reqvars

\* line 111: open(file_location, "wb") creates the file or truncates it
upload_open(u) ==
    /\ up[u].pc = "open"
    /\ fs' = [fs EXCEPT ![up[u].filename] = 0]
    /\ up' = [up EXCEPT ![u].pc = "copy", ![u].off = 0]
    /\ UNCHANGED reqvars

\* line 112: shutil.copyfileobj writes the upload block by block at the
\* position of this handler's own file object
upload_copy(u) ==
    /\ up[u].pc = "copy"
    /\ up[u].off < up[u].size
    /\ fs' = [fs EXCEPT ![up[u].filename] = IF @ > up[u].off + 1 THEN @ ELSE up[u].off + 1]
    /\ up' = [up EXCEPT ![u].off = @ + 1]
    /\ UNCHANGED reqvars

\* line 111: leaving the with block closes the file
upload_close(u) ==
    /\ up[u].pc = "copy"
    /\ up[u].off = up[u].size
    /\ up' = [up EXCEPT ![u].pc = "stat"]
    /\ UNCHANGED fs
    /\ UNCHANGED reqvars

\* lines 113-120: os.stat(file_location).st_size goes into the response
upload_stat(u) ==
    /\ up[u].pc = "stat"
    /\ up' = [up EXCEPT ![u].pc = "done", ![u].size_bytes = fs[up[u].filename]]
    /\ UNCHANGED fs
    /\ UNCHANGED reqvars

-----------------------------------------------------------------------------

\* os.getenv("GEMINI_API_KEY"): unset, set to the empty string, or set
Keys == {None, "", "AIza-key"}

Init ==
    /\ GEMINI_API_KEY \in Keys
    /\ pc = "idle"
    /\ endpoint = None
    /\ voice = <<>>
    /\ voice_id = None
    /\ audio_url = None
    /\ calls = <<>>
    /\ out = <<>>
    /\ fs = [f \in Filenames |-> -1]
    /\ up = [u \in Uploads |-> UploadIdle]

Next ==
    \/ request
    \/ murf_tts_alias
    \/ voice_reply_transcribe
    \/ voice_reply_synthesize
    \/ voice_reply_fetch
    \/ murf_tts_json_synthesize
    \/ murf_tts_json_fetch
    \/ generate_voice
    \/ llm_query

Spec == Init /\ [][Next]_vars

NextUpload ==
    \E u \in Uploads :
        \/ upload_request(u)
        \/ upload_open(u)
        \/ upload_copy(u)
        \/ upload_close(u)
        \/ upload_stat(u)

SpecUpload == Init /\ [][NextUpload]_vars

-----------------------------------------------------------------------------
(* Properties                                                               *)

IsVoiceReply == endpoint \in {"/voice-reply", "/murf-tts"}

CallsTo(api) == { i \in 1..Len(calls) : calls[i].api = api }

Returned(i) == ~calls[i].reply.raised

\* the synthesis answer of call i is a 200 whose JSON has a non-empty audioFile
HasAudioLocation(i) ==
    /\ Returned(i)
    /\ calls[i].reply.status = 200
    /\ calls[i].reply.text = B_url

\* the style map of the specification
StyleMap ==
    k_default :> "en-US-natalie" @@ k_narrator :> "en-US-terrell" @@
    k_support :> "en-US-miles" @@ k_sergeant :> "en-US-ken" @@
    k_game :> "en-US-paul"

\* C1: a /voice-reply request has no response while its handler runs and
\* exactly one when it has ended; that response is a streamed audio body or
\* an {error} payload, and it is the stream exactly when transcription
\* returned, synthesis returned 200 with a non-empty audioFile and the fetch
\* returned 200.
C1_VoiceReplyOutcome ==
    IsVoiceReply =>
      /\ pc # "done" => out = <<>>
      /\ pc = "done" =>
           /\ Len(out) = 1
           /\ out[1].kind \in {"stream", "error"}
           /\ out[1].kind = "stream" <=>
                /\ \E i \in CallsTo("transcribe") : Returned(i)
                /\ \E i \in CallsTo("synthesize") : HasAudioLocation(i)
                /\ \E i \in CallsTo("fetch") : Returned(i) /\ calls[i].reply.status = 200

C1_Witness ==
    /\ endpoint = "/voice-reply"
    /\ pc = "done"
    /\ Len(out) = 1
    /\ out[1].kind = "stream"
    /\ Len(calls) = 3

C3_Original ==
    \A i \in CallsTo("synthesize") :
      calls[i].arg = (IF voice \in DOMAIN StyleMap THEN StyleMap[voice] ELSE "en-US-natalie")

\* C3 amended: the label is compared after lowercasing.  A label whose
\* lowercase form is in the map is sent as the map's voice ID for that form,
\* every other label as en-US-natalie, in /generate, /voice-reply, /murf-tts
\* and /murf-tts-json alike; and whatever the label, the synthesis call is
\* made (always in /generate and /murf-tts-json, in /voice-reply whenever
\* transcription returned).
C3_VoiceResolution ==
    /\ \A i \in CallsTo("synthesize") :
         calls[i].arg = (IF lower(voice) \in DOMAIN StyleMap
                         THEN StyleMap[lower(voice)]
                         ELSE "en-US-natalie")
    /\ (pc = "done" /\ endpoint \in {"/generate", "/murf-tts-json"})
         => CallsTo("synthesize") # {}
    /\ (pc = "done" /\ IsVoiceReply /\ \E i \in CallsTo("transcribe") : Returned(i))
         => CallsTo("synthesize") # {}

C3_Witness ==
    /\ endpoint = "/murf-tts-json"
    /\ voice = <<"G", "A", "M", "E">>
    /\ CallsTo("synthesize") # {}
    /\ \A i \in CallsTo("synthesize") : calls[i].arg = "en-US-paul"

\* C4: once the synthesis provider has answered with a status other than
\* 200, the request has ended with an {error} response of that same status
\* holding the provider's body, and no audio fetch is made.
C4_SynthesisStatusPassThrough ==
    \A i \in CallsTo("synthesize") :
      (Returned(i) /\ calls[i].reply.status # 200) =>
        /\ pc = "done"
        /\ out = <<JSONError(calls[i].reply.status, <<calls[i].reply.text>>)>>
        /\ CallsTo("fetch") = {}

C4_Witness ==
    /\ endpoint = "/generate"
    /\ pc = "done"
    /\ Len(calls) = 1
    /\ Returned(1)
    /\ calls[1].reply.status = 201
    /\ out[1].status = 201

\* C5: in /voice-reply, /murf-tts and /murf-tts-json, once synthesis has
\* answered 200 with a JSON body whose audioFile is absent, null or empty,
\* the request has ended with a 500 {error} response carrying the fixed
\* message, no fetch is made and no exception leaves the handler.
C5_MissingAudioLocation ==
    (IsVoiceReply \/ endpoint = "/murf-tts-json") =>
      \A i \in CallsTo("synthesize") :
        (Returned(i) /\ calls[i].reply.status = 200
           /\ calls[i].reply.text \in {B_absent, B_null, B_empty}) =>
          /\ pc = "done"
          /\ out = <<JSONError(500, <<"No audio file URL returned by Murf AI">>)>>
          /\ CallsTo("fetch") = {}

C5_Witness ==
    /\ endpoint = "/murf-tts-json"
    /\ pc = "done"
    /\ Len(calls) = 1
    /\ Returned(1)
    /\ calls[1].reply.status = 200
    /\ calls[1].reply.text = B_empty

\* C6: every /generate request ends with an {audio_url} response or an
\* {error} response; no exception leaves the handler.
C6_GenerateStructured ==
    (endpoint = "/generate" /\ pc = "done") =>
      /\ Len(out) = 1
      /\ out[1].kind \in {"json", "error"}

\* what the provider answers decide for the endpoints other than /llm/query
OutcomeByReplies ==
    LET last == calls[Len(calls)].reply IN
    CASE endpoint = "/generate" -> generate_voice_response(last).out
      [] endpoint = "/murf-tts-json" /\ Len(calls) = 1 -> murf_tts_json_synthesized(last).out
      [] endpoint = "/murf-tts-json" /\ Len(calls) = 2 -> murf_tts_json_fetched(last).out
      [] IsVoiceReply /\ Len(calls) = 1 -> voice_reply_transcribed(last).out
      [] IsVoiceReply /\ Len(calls) = 2 -> voice_reply_synthesized(last).out
      [] IsVoiceReply /\ Len(calls) = 3 -> voice_reply_fetched(last).out

\* C7: with no Gemini key (unset or empty) a /llm/query request ends with
\* the 500 "Gemini API key not configured" error and the language-model
\* provider is never called; the response of every other endpoint is the one
\* its providers' answers decide, whatever the key.
C7_MissingGeminiKey ==
    /\ GEMINI_API_KEY \in {None, ""} =>
         /\ CallsTo("gemini") = {}
         /\ (endpoint = "/llm/query" /\ pc = "done") =>
              out = <<HTTPExc(500, <<"Gemini API key not configured">>)>>
    /\ (endpoint # "/llm/query" /\ pc = "done") =>
         /\ Len(calls) \in 1..3
         /\ out = OutcomeByReplies

C7_Witness ==
    /\ GEMINI_API_KEY = ""
    /\ endpoint = "/llm/query"
    /\ pc = "done"
    /\ Len(out) = 1
    /\ out[1].status = 500

\* C8: the provider calls of a /voice-reply request are, in this order, at
\* most one transcribe, one synthesize and one fetch; synthesize follows a
\* transcription that returned, fetch follows a synthesis that returned 200
\* with an audio location.
C8_CallOrder ==
    IsVoiceReply =>
      /\ Len(calls) <= 3
      /\ \A i \in 1..Len(calls) : calls[i].api = <<"transcribe", "synthesize", "fetch">>[i]
      /\ Len(calls) >= 2 => Returned(1)
      /\ Len(calls) >= 3 => HasAudioLocation(2)

C8_Witness ==
    /\ endpoint = "/murf-tts"
    /\ Len(calls) = 3
    /\ calls[3].api = "fetch"
    /\ calls[3].reply.raised

\* C9: in /llm/query with a key configured, a provider 4xx/5xx status comes
\* back with that status and detail "Gemini API error: <body>", a successful
\* answer without candidates as 500 "No response from Gemini API", any other
\* exception as 500 "Internal error: <exception>".
C9_LlmErrors ==
    (endpoint = "/llm/query" /\ pc = "done" /\ Len(calls) = 1) =>
      LET g == calls[1].reply IN
        /\ (Returned(1) /\ g.status >= 400) =>
             out = <<HTTPExc(g.status, <<"Gemini API error: ", g.text>>)>>
        /\ (Returned(1) /\ g.status = 200 /\ g.text \in {G_empty, G_nokey}) =>
             out = <<HTTPExc(500, <<"No response from Gemini API">>)>>
        /\ g.raised =>
             out = <<HTTPExc(500, <<"Internal error: ", g.msg>>)>>

\* C10: the size_bytes of every /upload response is the size of the file
\* that request uploaded, for any interleaving of the requests.
C10_UploadOwnSize ==
    \A u \in Uploads : up[u].pc = "done" => up[u].size_bytes = up[u].size

====
